---- MODULE Spec2Model ----
(***************************************************************************)
(* Model of the NumberSliderSolver search engine: Board (Board.hpp), the   *)
(* State / Solution orderings (PuzzleSolver.hpp) and PuzzleSolver::solve,  *)
(* worker_thread_func and reconstruct_path (PuzzleSolver.cpp, the version  *)
(* with came_from and the time limit).  Every access of a worker to a      *)
(* shared container is one step, so that all interleavings of the workers  *)
(* are explored.                                                           *)
(***************************************************************************)
EXTENDS Integers, Sequences, FiniteSets, TLC

VARIABLES
    phase,                  \* "idle" | "running" | "returned": position of the caller of solve
    initial_board,          \* solve argument
    type,                   \* solve argument (SolveType)
    num_solutions_to_find,  \* solve argument (K)
    num_threads,            \* solve argument
    time_limit_seconds,     \* solve argument (0 = no limit)
    elapsed,                \* clock ticks since global_start_time
    open_set,               \* tbb::concurrent_priority_queue<State>: bag State -> count
    g_costs,                \* tbb::concurrent_unordered_map<Board,int>, keyed by tiles
    came_from,              \* tbb::concurrent_unordered_map<Board,Board>, keyed by tiles
    found_solutions,        \* std::set<Solution>
    solutions_mutex,        \* 0 = free, otherwise the worker holding it
    terminate_search,       \* std::atomic<bool>
    states_explored,        \* std::atomic<long long>
    pc,                     \* position of every worker in worker_thread_func
    current_state,          \* worker local: the popped State
    neighbors,              \* worker local: successors of current_state.board
    nidx,                   \* worker local: index of the successor being relaxed
    path,                   \* reconstruct_path local
    current,                \* reconstruct_path local
    result,                 \* value returned by solve
    after_stop,             \* history: frontier pops / pushes of a worker since the flag was set
    events,                 \* history: the warn / error events logged by this invocation
    previous_cost           \* history: top-1 cost of the previous invocation when it is repeated

vars == <<phase, initial_board, type, num_solutions_to_find, num_threads,
          time_limit_seconds, elapsed, open_set, g_costs, came_from,
          found_solutions, solutions_mutex, terminate_search, states_explored,
          pc, current_state, neighbors, nidx, path, current, result, after_stop,
          events, previous_cost>>

inputs == <<initial_board, type, num_solutions_to_find, num_threads, time_limit_seconds>>

(***************************************************************************)
(* Bounds of the model.                                                    *)
(***************************************************************************)
MaxK == 2            \* largest num_solutions_to_find the model passes to solve
ConcThreads == 2     \* largest num_threads of the concurrent specification
MaxClock == 2        \* clock ticks after which time is no longer advanced
TicksPerSecond == 2  \* resolution of the modelled clock
MaxPath == 24        \* boards reconstruct_path records before the model stops recording

Workers == 1..ConcThreads

(***************************************************************************)
(* Board.hpp                                                               *)
(***************************************************************************)
\* index of the first 0 in tiles (0-based), as the constructor's loop finds it
FirstZero(tiles) ==
    CHOOSE i \in 0..(Len(tiles) - 1) :
        /\ tiles[i + 1] = 0
        /\ \A j \in 0..(i - 1) : tiles[j + 1] # 0

\* Board::Board(n, m, initial_tiles)
Board(n, m, tiles) ==
    [N |-> n, M |-> m, tiles |-> tiles,
     empty_row |-> FirstZero(tiles) \div m,
     empty_col |-> FirstZero(tiles) % m]

\* Board(0, 0, {}) as built by State(): no tile, blank coordinates never read
DefaultBoard == [N |-> 0, M |-> 0, tiles |-> <<>>, empty_row |-> 0, empty_col |-> 0]

\* Board::operator== compares the tile vectors only
BoardEq(a, b) == a.tiles = b.tiles

\* std::vector<int>::operator< (lexicographical_compare)
RECURSIVE IntSeqLess(_, _)
IntSeqLess(s, t) ==
    IF t = <<>> THEN FALSE
    ELSE IF s = <<>> THEN TRUE
    ELSE IF s[1] < t[1] THEN TRUE
    ELSE IF t[1] < s[1] THEN FALSE
    ELSE IntSeqLess(Tail(s), Tail(t))

\* Board::operator<
BoardLess(a, b) ==
    IF a.N # b.N \/ a.M # b.M
    THEN a.N < b.N \/ (a.N = b.N /\ a.M < b.M)
    ELSE IntSeqLess(a.tiles, b.tiles)

\* Board::is_goal
is_goal(b) ==
    /\ \A i \in 0..(b.N * b.M - 2) : b.tiles[i + 1] = i + 1
    /\ b.tiles[b.N * b.M] = 0

Abs(x) == IF x < 0 THEN -x ELSE x

\* the sum of get_manhattan_distance with the blank counted as a tile whose
\* target is the last cell
RECURSIVE ManhattanCountingBlank(_, _)
ManhattanCountingBlank(b, i) ==
    IF i >= b.N * b.M THEN 0
    ELSE LET val == b.tiles[i + 1]
             current_row == i \div b.M
             current_col == i % b.M
             target_idx == IF val = 0 THEN b.N * b.M - 1 ELSE val - 1
             target_row == target_idx \div b.M
             target_col == target_idx % b.M
         IN  Abs(current_row - target_row) + Abs(current_col - target_col)
             + ManhattanCountingBlank(b, i + 1)

\* Board::get_manhattan_distance
RECURSIVE ManhattanFrom(_, _)
ManhattanFrom(b, i) ==
    IF i >= b.N * b.M THEN 0
    ELSE LET val == b.tiles[i + 1]
             current_row == i \div b.M
             current_col == i % b.M
             target_idx == val - 1
             target_row == target_idx \div b.M
             target_col == target_idx % b.M
         IN  (IF val = 0 THEN 0
              ELSE Abs(current_row - target_row) + Abs(current_col - target_col))
             + ManhattanFrom(b, i + 1)

get_manhattan_distance(b) == ManhattanFrom(b, 0)

\* half of a swap: cell i receives the value of cell j, cell j keeps its own
CopyTile(tiles, i, j) ==
    [k \in 1..Len(tiles) |-> IF k = i + 1 THEN tiles[j + 1] ELSE tiles[k]]

\* std::swap of two cells (0-based indices)
SwapTiles(tiles, i, j) ==
    [k \in 1..Len(tiles) |->
        IF k = i + 1 THEN tiles[j + 1]
        ELSE IF k = j + 1 THEN tiles[i + 1]
        ELSE tiles[k]]

\* dr[], dc[]: up, down, left, right
dr == <<-1, 1, 0, 0>>
dc == <<0, 0, -1, 1>>

InBounds(b, r, c) == r >= 0 /\ r < b.N /\ c >= 0 /\ c < b.M

\* Board::get_neighbors_adjacent_swap
RECURSIVE AdjacentSwapFrom(_, _)
AdjacentSwapFrom(b, i) ==
    IF i > 4 THEN <<>>
    ELSE LET new_row == b.empty_row + dr[i]
             new_col == b.empty_col + dc[i]
             new_empty_idx == new_row * b.M + new_col
             old_empty_idx == b.empty_row * b.M + b.empty_col
         IN  (IF InBounds(b, new_row, new_col)
              THEN << [b EXCEPT !.tiles = SwapTiles(b.tiles, old_empty_idx, new_empty_idx),
                                !.empty_row = new_row,
                                !.empty_col = new_col] >>
              ELSE <<>>)
             \o AdjacentSwapFrom(b, i + 1)

get_neighbors_adjacent_swap(b) == AdjacentSwapFrom(b, 1)

\* one iteration of that loop only: the shift of a single tile
ShiftOnce(shifted, dir_r, dir_c, current_r, current_c) ==
    IF ~InBounds(shifted, current_r, current_c) THEN <<>>
    ELSE LET current_tile_idx == current_r * shifted.M + current_c
             prev_empty_idx == (current_r - dir_r) * shifted.M + (current_c - dir_c)
         IN  << [shifted EXCEPT
                   !.tiles = SwapTiles(shifted.tiles, current_tile_idx, prev_empty_idx),
                   !.empty_row = current_r,
                   !.empty_col = current_c] >>

\* the while loop of get_neighbors_block_shift for one direction
RECURSIVE ShiftAlong(_, _, _, _, _)
ShiftAlong(shifted, dir_r, dir_c, current_r, current_c) ==
    IF ~InBounds(shifted, current_r, current_c) THEN <<>>
    ELSE LET current_tile_idx == current_r * shifted.M + current_c
             prev_empty_idx == (current_r - dir_r) * shifted.M + (current_c - dir_c)
             next == [shifted EXCEPT
                        !.tiles = SwapTiles(shifted.tiles, current_tile_idx, prev_empty_idx),
                        !.empty_row = current_r,
                        !.empty_col = current_c]
         IN  <<next>> \o ShiftAlong(next, dir_r, dir_c, current_r + dir_r, current_c + dir_c)

\* Board::get_neighbors_block_shift
RECURSIVE BlockShiftFrom(_, _)
BlockShiftFrom(b, i) ==
    IF i > 4 THEN <<>>
    ELSE ShiftAlong(b, dr[i], dc[i], b.empty_row + dr[i], b.empty_col + dc[i])
         \o BlockShiftFrom(b, i + 1)

get_neighbors_block_shift(b) == BlockShiftFrom(b, 1)

(***************************************************************************)
(* PuzzleSolver.hpp                                                        *)
(***************************************************************************)
AdjacentSwap == "AdjacentSwap"
BlockShift == "BlockShift"

\* State::State(Board b, int g, int h)
State(b, g, h) == [board |-> b, g_cost |-> g, h_cost |-> h, f_cost |-> g + h]

\* State::State()
DefaultState == [board |-> DefaultBoard, g_cost |-> 0, h_cost |-> 0, f_cost |-> 0]

\* the comparator with the sense of both comparisons inverted (a max-heap on f)
CompareStateInverted(a, b) ==
    IF a.f_cost # b.f_cost THEN a.f_cost < b.f_cost
    ELSE a.g_cost < b.g_cost

\* a comparison on f_cost alone, without the g_cost tie-break
CompareStateByF(a, b) == a.f_cost > b.f_cost

\* CompareStateForTBB::operator(): TRUE when a has lower priority than b
CompareStateForTBB(a, b) ==
    IF a.f_cost # b.f_cost THEN a.f_cost > b.f_cost
    ELSE a.g_cost > b.g_cost

\* std::vector<Board>::operator< (lexicographical_compare with Board::operator<)
RECURSIVE PathLess(_, _)
PathLess(p, q) ==
    IF q = <<>> THEN FALSE
    ELSE IF p = <<>> THEN TRUE
    ELSE IF BoardLess(p[1], q[1]) THEN TRUE
    ELSE IF BoardLess(q[1], p[1]) THEN FALSE
    ELSE PathLess(Tail(p), Tail(q))

\* Solution::operator<
SolutionLess(a, b) ==
    IF a.cost # b.cost THEN a.cost < b.cost
    ELSE PathLess(a.path, b.path)

\* std::set<Solution>::insert: nothing is inserted when an equivalent element is present
SetInsert(S, sol) ==
    IF \E o \in S : ~SolutionLess(o, sol) /\ ~SolutionLess(sol, o)
    THEN S
    ELSE S \cup {sol}

\* iteration order of std::set<Solution> (begin .. end)
RECURSIVE InOrder(_)
InOrder(S) ==
    IF S = {} THEN <<>>
    ELSE LET first == CHOOSE m \in S : \A o \in S \ {m} : SolutionLess(m, o)
         IN  <<first>> \o InOrder(S \ {first})

(***************************************************************************)
(* Containers                                                              *)
(***************************************************************************)
EmptyMap == [k \in {} |-> 0]

\* insertion or replacement of one entry of a map
MapPut(m, k, v) == [x \in DOMAIN m \cup {k} |-> IF x = k THEN v ELSE m[x]]

\* concurrent_priority_queue::push
QueuePush(q, s) ==
    [x \in DOMAIN q \cup {s} |->
        IF x = s THEN (IF s \in DOMAIN q THEN q[s] + 1 ELSE 1) ELSE q[x]]

\* removal of one copy of s by concurrent_priority_queue::try_pop
QueueRemove(q, s) ==
    IF q[s] > 1 THEN [q EXCEPT ![s] = q[s] - 1]
    ELSE [x \in DOMAIN q \ {s} |-> q[x]]

\* a queue without priorities: try_pop may return any queued state
QueueAny(q) == DOMAIN q

\* the states try_pop may return: no queued state has a higher priority
QueueTop(q) ==
    {s \in DOMAIN q : \A x \in DOMAIN q : ~CompareStateForTBB(s, x)}

\* the sequence left as it is, without std::reverse
NotReversed(s) == s

\* std::reverse
Reverse(s) == [i \in 1..Len(s) |-> s[Len(s) + 1 - i]]

\* what a copy of a Board can hold while another thread is assigning `new`
\* over `old` (came_from[...] = board is not synchronised with readers)
Torn(old, new) ==
    [N : {old.N, new.N}, M : {old.M, new.M},
     tiles : IF Len(old.tiles) = Len(new.tiles)
             THEN {[i \in 1..Len(old.tiles) |->
                       IF i \in S THEN new.tiles[i] ELSE old.tiles[i]] :
                   S \in SUBSET (1..Len(old.tiles))}
             ELSE {old.tiles, new.tiles},
     empty_row : {old.empty_row, new.empty_row},
     empty_col : {old.empty_col, new.empty_col}]

(***************************************************************************)
(* PuzzleSolver::solve                                                     *)
(***************************************************************************)
NoStop == [pop |-> 0, push |-> 0]

LocalsInit ==
    /\ current_state' = [w \in Workers |-> DefaultState]
    /\ neighbors' = [w \in Workers |-> <<>>]
    /\ nidx' = [w \in Workers |-> 0]
    /\ path' = [w \in Workers |-> <<>>]
    /\ current' = [w \in Workers |-> DefaultBoard]

\* solve without found_solutions.clear()
SolveKeepingSolutions(b, ty, k, n, t) ==
    /\ phase \in {"idle", "returned"}
    /\ phase' = "running"
    /\ initial_board' = b
    /\ type' = ty
    /\ num_solutions_to_find' = k
    /\ num_threads' = n
    /\ time_limit_seconds' = t
    /\ elapsed' = 0
    /\ open_set' = QueuePush(EmptyMap, State(b, 0, get_manhattan_distance(b)))
    /\ g_costs' = MapPut(EmptyMap, b.tiles, 0)
    /\ came_from' = EmptyMap
    /\ found_solutions' = found_solutions
    /\ terminate_search' = FALSE
    /\ states_explored' = 0
    /\ pc' = [w \in Workers |-> IF w <= n THEN "loop" ELSE "none"]
    /\ LocalsInit
    /\ result' = <<>>
    /\ after_stop' = [w \in Workers |-> NoStop]
    /\ events' = {}
    /\ UNCHANGED solutions_mutex

\* solve up to the launch of the workers: reset, seeding, tg.run
Solve(b, ty, k, n, t) ==
    /\ phase \in {"idle", "returned"}
    /\ phase' = "running"
    /\ initial_board' = b
    /\ type' = ty
    /\ num_solutions_to_find' = k
    /\ num_threads' = n
    /\ time_limit_seconds' = t
    /\ elapsed' = 0
    /\ open_set' = QueuePush(EmptyMap, State(b, 0, get_manhattan_distance(b)))
    /\ g_costs' = MapPut(EmptyMap, b.tiles, 0)
    /\ came_from' = EmptyMap
    /\ found_solutions' = {}
    /\ terminate_search' = FALSE
    /\ states_explored' = 0
    /\ pc' = [w \in Workers |-> IF w <= n THEN "loop" ELSE "none"]
    /\ LocalsInit
    /\ result' = <<>>
    /\ after_stop' = [w \in Workers |-> NoStop]
    /\ events' = {}
    /\ UNCHANGED solutions_mutex

\* the extraction loop with `count > num_solutions_to_find` as its exit test
ExtractOneMore(S, k) ==
    LET all == InOrder(S)
    IN  SubSeq(all, 1, IF Len(all) < k + 1 THEN Len(all) ELSE k + 1)

\* the first num_solutions_to_find solutions in the order of the set
Extract(S, k) ==
    LET all == InOrder(S)
    IN  SubSeq(all, 1, IF Len(all) < k THEN Len(all) ELSE k)

\* tg.wait() and the extraction of the result
Join ==
    /\ phase = "running"
    /\ \A w \in Workers : pc[w] \in {"none", "done"}
    /\ phase' = "returned"
    /\ result' = Extract(found_solutions, num_solutions_to_find)
    /\ events' = IF terminate_search THEN events \cup {"terminated_early"} ELSE events
    /\ UNCHANGED <<inputs, elapsed, open_set, g_costs, came_from, found_solutions,
                   solutions_mutex, terminate_search, states_explored, pc,
                   current_state, neighbors, nidx, path, current, after_stop,
                   previous_cost>>

\* the wall clock advances while solve runs
Tick ==
    /\ phase = "running"
    /\ elapsed < MaxClock
    /\ elapsed' = elapsed + 1
    /\ UNCHANGED <<phase, inputs, open_set, g_costs, came_from, found_solutions,
                   solutions_mutex, terminate_search, states_explored, pc,
                   current_state, neighbors, nidx, path, current, result, after_stop,
                   events, previous_cost>>

(***************************************************************************)
(* PuzzleSolver::worker_thread_func                                        *)
(***************************************************************************)
Goto(w, label) == pc' = [pc EXCEPT ![w] = label]

\* a worker leaves worker_thread_func: its locals are destroyed
Exit(w) ==
    /\ pc' = [pc EXCEPT ![w] = "done"]
    /\ current_state' = [current_state EXCEPT ![w] = DefaultState]

\* counts a frontier operation of w made after the stop flag was set
Count(w, op) ==
    after_stop' =
        IF terminate_search
        THEN [after_stop EXCEPT ![w][op] = after_stop[w][op] + 1]
        ELSE after_stop

\* the loop condition without the test of the stop flag
LoopIgnoringStop(w) ==
    /\ pc[w] = "loop"
    /\ Goto(w, "pop")
    /\ UNCHANGED <<phase, inputs, elapsed, open_set, g_costs, came_from,
                   found_solutions, solutions_mutex, terminate_search,
                   states_explored, current_state, neighbors, nidx, path, current,
                   result, after_stop,
                   events, previous_cost>>

\* while (!terminate_search.load() ...
Loop(w) ==
    /\ pc[w] = "loop"
    /\ IF terminate_search
       THEN Exit(w)
       ELSE Goto(w, "pop") /\ UNCHANGED current_state
    /\ UNCHANGED <<phase, inputs, elapsed, open_set, g_costs, came_from,
                   found_solutions, solutions_mutex, terminate_search,
                   states_explored, neighbors, nidx, path, current, result, after_stop,
                   events, previous_cost>>

\* a try_pop that may also fail on a non-empty queue
PopFailing(w) ==
    /\ pc[w] = "pop"
    /\ \/ /\ Exit(w)
          /\ UNCHANGED <<open_set, states_explored, after_stop>>
       \/ /\ DOMAIN open_set # {}
          /\ \E s \in QueueTop(open_set) :
                /\ current_state' = [current_state EXCEPT ![w] = s]
                /\ open_set' = QueueRemove(open_set, s)
                /\ states_explored' = states_explored + 1
                /\ Count(w, "pop")
                /\ Goto(w, "time")
    /\ UNCHANGED <<phase, inputs, elapsed, g_costs, came_from, found_solutions,
                   solutions_mutex, terminate_search, neighbors, nidx, path,
                   current, result, events, previous_cost>>

\* ... && open_set.try_pop(current_state)) { states_explored++;
Pop(w) ==
    /\ pc[w] = "pop"
    /\ IF DOMAIN open_set = {}
       THEN /\ Exit(w)
            /\ UNCHANGED <<open_set, states_explored, after_stop>>
       ELSE \E s \in QueueTop(open_set) :
                /\ current_state' = [current_state EXCEPT ![w] = s]
                /\ open_set' = QueueRemove(open_set, s)
                /\ states_explored' = states_explored + 1
                /\ Count(w, "pop")
                /\ Goto(w, "time")
    /\ UNCHANGED <<phase, inputs, elapsed, g_costs, came_from, found_solutions,
                   solutions_mutex, terminate_search, neighbors, nidx, path,
                   current, result, events, previous_cost>>

\* the elapsed time rounded up instead of truncated
ElapsedSecondsRoundedUp == (elapsed + TicksPerSecond - 1) \div TicksPerSecond

\* duration_cast<seconds>(now - start_time).count()
ElapsedSeconds == elapsed \div TicksPerSecond

\* the time-limit check without its warning
TimeCheckSilent(w) ==
    /\ pc[w] = "time"
    /\ IF time_limit_seconds > 0 /\ ElapsedSeconds >= time_limit_seconds
       THEN /\ terminate_search' = TRUE
            /\ Exit(w)
       ELSE /\ Goto(w, "prune")
            /\ UNCHANGED <<terminate_search, current_state>>
    /\ UNCHANGED <<phase, inputs, elapsed, open_set, g_costs, came_from,
                   found_solutions, solutions_mutex, states_explored,
                   neighbors, nidx, path, current, result, after_stop,
                   events, previous_cost>>

\* the time-limit check
TimeCheck(w) ==
    /\ pc[w] = "time"
    /\ IF time_limit_seconds > 0 /\ ElapsedSeconds >= time_limit_seconds
       THEN /\ events' = events \cup {"time_limit"}
            /\ terminate_search' = TRUE
            /\ Exit(w)
       ELSE /\ Goto(w, "prune")
            /\ UNCHANGED <<terminate_search, current_state, events>>
    /\ UNCHANGED <<phase, inputs, elapsed, open_set, g_costs, came_from,
                   found_solutions, solutions_mutex, states_explored,
                   neighbors, nidx, path, current, result, after_stop,
                   previous_cost>>

\* the cost of the num_solutions_to_find-th solution, -1 when there are fewer
NthBestCost(S, k) ==
    IF Cardinality(S) >= k THEN InOrder(S)[k].cost ELSE -1

\* pruning only the states whose f_cost is above the k-th best cost
PruneAbove(w) ==
    /\ pc[w] = "prune"
    /\ solutions_mutex = 0
    /\ LET current_nth_best_cost == NthBestCost(found_solutions, num_solutions_to_find)
       IN  IF current_nth_best_cost # -1
              /\ current_state[w].f_cost > current_nth_best_cost
           THEN Goto(w, "loop")
           ELSE Goto(w, "stale")
    /\ UNCHANGED <<phase, inputs, elapsed, open_set, g_costs, came_from,
                   found_solutions, solutions_mutex, terminate_search,
                   states_explored, current_state, neighbors, nidx, path,
                   current, result, after_stop,
                   events, previous_cost>>

\* pruning against the k-th best solution (critical section of solutions_mutex)
Prune(w) ==
    /\ pc[w] = "prune"
    /\ solutions_mutex = 0
    /\ LET current_nth_best_cost == NthBestCost(found_solutions, num_solutions_to_find)
       IN  IF current_nth_best_cost # -1
              /\ current_state[w].f_cost >= current_nth_best_cost
           THEN Goto(w, "loop")
           ELSE Goto(w, "stale")
    /\ UNCHANGED <<phase, inputs, elapsed, open_set, g_costs, came_from,
                   found_solutions, solutions_mutex, terminate_search,
                   states_explored, current_state, neighbors, nidx, path,
                   current, result, after_stop,
                   events, previous_cost>>

\* the successors under the active cost model
Successors(ty, b) ==
    IF ty = AdjacentSwap THEN get_neighbors_adjacent_swap(b)
    ELSE get_neighbors_block_shift(b)

\* the staleness check discarding equal g_cost too
StaleOrEqual(w) ==
    /\ pc[w] = "stale"
    /\ LET b == current_state[w].board
       IN  IF b.tiles \in DOMAIN g_costs /\ current_state[w].g_cost >= g_costs[b.tiles]
           THEN Goto(w, "loop") /\ UNCHANGED <<neighbors, nidx>>
           ELSE IF is_goal(b)
           THEN Goto(w, "lock") /\ UNCHANGED <<neighbors, nidx>>
           ELSE /\ neighbors' = [neighbors EXCEPT ![w] = Successors(type, b)]
                /\ nidx' = [nidx EXCEPT ![w] = 1]
                /\ Goto(w, IF Successors(type, b) = <<>> THEN "loop" ELSE "emplace")
    /\ UNCHANGED <<phase, inputs, elapsed, open_set, g_costs, came_from,
                   found_solutions, solutions_mutex, terminate_search,
                   states_explored, current_state, path, current, result, after_stop,
                   events, previous_cost>>

\* staleness check, goal test and generation of the successors
Stale(w) ==
    /\ pc[w] = "stale"
    /\ LET b == current_state[w].board
       IN  IF b.tiles \in DOMAIN g_costs /\ current_state[w].g_cost > g_costs[b.tiles]
           THEN Goto(w, "loop") /\ UNCHANGED <<neighbors, nidx>>
           ELSE IF is_goal(b)
           THEN Goto(w, "lock") /\ UNCHANGED <<neighbors, nidx>>
           ELSE /\ neighbors' = [neighbors EXCEPT ![w] = Successors(type, b)]
                /\ nidx' = [nidx EXCEPT ![w] = 1]
                /\ Goto(w, IF Successors(type, b) = <<>> THEN "loop" ELSE "emplace")
    /\ UNCHANGED <<phase, inputs, elapsed, open_set, g_costs, came_from,
                   found_solutions, solutions_mutex, terminate_search,
                   states_explored, current_state, path, current, result, after_stop,
                   events, previous_cost>>

\* std::lock_guard lock(solutions_mutex) of the goal branch; entry of reconstruct_path
Lock(w) ==
    /\ pc[w] = "lock"
    /\ solutions_mutex = 0
    /\ solutions_mutex' = w
    /\ path' = [path EXCEPT ![w] = <<>>]
    /\ current' = [current EXCEPT ![w] = current_state[w].board]
    /\ Goto(w, "walk")
    /\ UNCHANGED <<phase, inputs, elapsed, open_set, g_costs, came_from,
                   found_solutions, terminate_search, states_explored,
                   current_state, neighbors, nidx, result, after_stop,
                   events, previous_cost>>

\* the workers that are assigning a Board to came_from[key] right now
Assigning(key) ==
    {v \in Workers : /\ pc[v] \in {"parent_assign", "parent_assign_raced"}
                     /\ neighbors[v][nidx[v]].tiles = key}

\* what `current = it->second` can read for key
ReadParent(key) ==
    IF Assigning(key) = {} THEN {came_from[key]}
    ELSE UNION {Torn(came_from[key], current_state[v].board) : v \in Assigning(key)}

\* reconstruct_path as a do-while loop: the board is pushed before it is compared
\* with the initial board
WalkAtLeastOnce(w) ==
    /\ pc[w] = "walk"
    /\ path' = [path EXCEPT ![w] =
                    IF Len(path[w]) < MaxPath THEN Append(path[w], current[w])
                    ELSE path[w]]
    /\ IF BoardEq(current[w], initial_board)
       THEN Goto(w, "insert") /\ UNCHANGED <<current, events>>
       ELSE IF current[w].tiles \in DOMAIN came_from
       THEN /\ \E parent \in ReadParent(current[w].tiles) :
                   current' = [current EXCEPT ![w] = parent]
            /\ UNCHANGED <<pc, events>>
       ELSE /\ events' = events \cup {"broken_chain"}
            /\ Goto(w, "insert")
            /\ UNCHANGED current
    /\ UNCHANGED <<phase, inputs, elapsed, open_set, g_costs, came_from,
                   found_solutions, solutions_mutex, terminate_search,
                   states_explored, current_state, neighbors, nidx, result, after_stop,
                   previous_cost>>

\* one iteration of the while loop of reconstruct_path
Walk(w) ==
    /\ pc[w] = "walk"
    /\ IF BoardEq(current[w], initial_board)
       THEN Goto(w, "insert") /\ UNCHANGED <<path, current, events>>
       ELSE /\ path' = [path EXCEPT ![w] =
                           IF Len(path[w]) < MaxPath THEN Append(path[w], current[w])
                           ELSE path[w]]
            /\ IF current[w].tiles \in DOMAIN came_from
               THEN /\ \E parent \in ReadParent(current[w].tiles) :
                           current' = [current EXCEPT ![w] = parent]
                    /\ UNCHANGED <<pc, events>>
               ELSE /\ events' = events \cup {"broken_chain"}
                    /\ Goto(w, "insert")
                    /\ UNCHANGED current
    /\ UNCHANGED <<phase, inputs, elapsed, open_set, g_costs, came_from,
                   found_solutions, solutions_mutex, terminate_search,
                   states_explored, current_state, neighbors, nidx, result, after_stop,
                   previous_cost>>

\* the goal branch storing `size >= K` into the flag instead of storing true when it holds
InsertStoringTest(w) ==
    /\ pc[w] = "insert"
    /\ LET full == Reverse(Append(path[w], initial_board))
           sol == [cost |-> current_state[w].g_cost, path |-> full]
       IN  /\ found_solutions' = SetInsert(found_solutions, sol)
           /\ terminate_search' =
                 (Cardinality(SetInsert(found_solutions, sol)) >= num_solutions_to_find)
    /\ solutions_mutex' = 0
    /\ path' = [path EXCEPT ![w] = <<>>]
    /\ current' = [current EXCEPT ![w] = DefaultBoard]
    /\ Goto(w, "loop")
    /\ UNCHANGED <<phase, inputs, elapsed, open_set, g_costs, came_from,
                   states_explored, current_state, neighbors, nidx, result, after_stop,
                   events, previous_cost>>

\* end of reconstruct_path, found_solutions.insert, the K-solutions stop, unlock
Insert(w) ==
    /\ pc[w] = "insert"
    /\ LET full == Reverse(Append(path[w], initial_board))
           sol == [cost |-> current_state[w].g_cost, path |-> full]
       IN  /\ found_solutions' = SetInsert(found_solutions, sol)
           /\ terminate_search' =
                 IF Cardinality(SetInsert(found_solutions, sol)) >= num_solutions_to_find
                 THEN TRUE ELSE terminate_search
    /\ solutions_mutex' = 0
    /\ path' = [path EXCEPT ![w] = <<>>]
    /\ current' = [current EXCEPT ![w] = DefaultBoard]
    /\ Goto(w, "loop")
    /\ UNCHANGED <<phase, inputs, elapsed, open_set, g_costs, came_from,
                   states_explored, current_state, neighbors, nidx, result, after_stop,
                   events, previous_cost>>

\* the cost of the successor without the move that leads to it
SameCost(w) == current_state[w].g_cost

\* the successor being relaxed and its cost
neighbor_board(w) == neighbors[w][nidx[w]]
new_g_cost(w) == current_state[w].g_cost + 1

\* end of one iteration of the for loop over neighbors
NextNeighbor(w) ==
    IF nidx[w] < Len(neighbors[w])
    THEN /\ nidx' = [nidx EXCEPT ![w] = nidx[w] + 1]
         /\ Goto(w, "emplace")
         /\ UNCHANGED neighbors
    ELSE /\ nidx' = [nidx EXCEPT ![w] = 0]
         /\ neighbors' = [neighbors EXCEPT ![w] = <<>>]
         /\ Goto(w, "loop")

\* g_costs.emplace(neighbor_board, new_g_cost)
Emplace(w) ==
    /\ pc[w] = "emplace"
    /\ IF neighbor_board(w).tiles \notin DOMAIN g_costs
       THEN /\ g_costs' = MapPut(g_costs, neighbor_board(w).tiles, new_g_cost(w))
            /\ Goto(w, "push_new")
       ELSE /\ Goto(w, "compare")
            /\ UNCHANGED g_costs
    /\ UNCHANGED <<phase, inputs, elapsed, open_set, came_from, found_solutions,
                   solutions_mutex, terminate_search, states_explored,
                   current_state, neighbors, nidx, path, current, result, after_stop,
                   events, previous_cost>>

\* the state pushed for the successor
NeighborState(w) ==
    State(neighbor_board(w), new_g_cost(w), get_manhattan_distance(neighbor_board(w)))

\* open_set.push of a first discovery
PushNew(w) ==
    /\ pc[w] = "push_new"
    /\ open_set' = QueuePush(open_set, NeighborState(w))
    /\ Count(w, "push")
    /\ Goto(w, "parent_new")
    /\ UNCHANGED <<phase, inputs, elapsed, g_costs, came_from, found_solutions,
                   solutions_mutex, terminate_search, states_explored,
                   current_state, neighbors, nidx, path, current, result, events, previous_cost>>

\* came_from.emplace(neighbor_board, current_state.board): keeps an existing entry
ParentNew(w) ==
    /\ pc[w] = "parent_new"
    /\ came_from' =
          IF neighbor_board(w).tiles \in DOMAIN came_from THEN came_from
          ELSE MapPut(came_from, neighbor_board(w).tiles, current_state[w].board)
    /\ NextNeighbor(w)
    /\ UNCHANGED <<phase, inputs, elapsed, open_set, g_costs, found_solutions,
                   solutions_mutex, terminate_search, states_explored,
                   current_state, path, current, result, after_stop,
                   events, previous_cost>>

\* the relaxation test accepting an equal cost as an improvement
CompareOrEqual(w) ==
    /\ pc[w] = "compare"
    /\ IF new_g_cost(w) <= g_costs[neighbor_board(w).tiles]
       THEN Goto(w, "update") /\ UNCHANGED <<neighbors, nidx>>
       ELSE NextNeighbor(w)
    /\ UNCHANGED <<phase, inputs, elapsed, open_set, g_costs, came_from,
                   found_solutions, solutions_mutex, terminate_search,
                   states_explored, current_state, path, current, result, after_stop,
                   events, previous_cost>>

\* if (new_g_cost < it_g->second)
Compare(w) ==
    /\ pc[w] = "compare"
    /\ IF new_g_cost(w) < g_costs[neighbor_board(w).tiles]
       THEN Goto(w, "update") /\ UNCHANGED <<neighbors, nidx>>
       ELSE NextNeighbor(w)
    /\ UNCHANGED <<phase, inputs, elapsed, open_set, g_costs, came_from,
                   found_solutions, solutions_mutex, terminate_search,
                   states_explored, current_state, path, current, result, after_stop,
                   events, previous_cost>>

\* it_g->second = new_g_cost
Update(w) ==
    /\ pc[w] = "update"
    /\ g_costs' = MapPut(g_costs, neighbor_board(w).tiles, new_g_cost(w))
    /\ Goto(w, "push_upd")
    /\ UNCHANGED <<phase, inputs, elapsed, open_set, came_from, found_solutions,
                   solutions_mutex, terminate_search, states_explored,
                   current_state, neighbors, nidx, path, current, result, after_stop,
                   events, previous_cost>>

\* open_set.push of a cheaper rediscovery
PushUpd(w) ==
    /\ pc[w] = "push_upd"
    /\ open_set' = QueuePush(open_set, NeighborState(w))
    /\ Count(w, "push")
    /\ Goto(w, "parent_upd")
    /\ UNCHANGED <<phase, inputs, elapsed, g_costs, came_from, found_solutions,
                   solutions_mutex, terminate_search, states_explored,
                   current_state, neighbors, nidx, path, current, result, events, previous_cost>>

\* came_from[neighbor_board]: operator[] inserts Board() when the key is absent
ParentUpd(w) ==
    /\ pc[w] = "parent_upd"
    /\ came_from' =
          IF neighbor_board(w).tiles \in DOMAIN came_from THEN came_from
          ELSE MapPut(came_from, neighbor_board(w).tiles, DefaultBoard)
    /\ Goto(w, "parent_assign")
    /\ UNCHANGED <<phase, inputs, elapsed, open_set, g_costs, found_solutions,
                   solutions_mutex, terminate_search, states_explored,
                   current_state, neighbors, nidx, path, current, result, after_stop,
                   events, previous_cost>>

\* ... = current_state.board: the copy assignment of the Board.  It is not
\* synchronised: a second assignment to the same entry that overlaps it
\* leaves any mix of the two boards.
ParentAssign(w) ==
    /\ pc[w] \in {"parent_assign", "parent_assign_raced"}
    /\ LET key == neighbor_board(w).tiles
           others == Assigning(key) \ {w}
           written ==
               IF pc[w] = "parent_assign_raced"
               THEN Torn(came_from[key], current_state[w].board)
               ELSE IF others = {} THEN {current_state[w].board}
               ELSE UNION {Torn(current_state[v].board, current_state[w].board) :
                           v \in others}
       IN  /\ \E b \in written : came_from' = MapPut(came_from, key, b)
           /\ IF nidx[w] < Len(neighbors[w])
              THEN /\ nidx' = [nidx EXCEPT ![w] = nidx[w] + 1]
                   /\ neighbors' = neighbors
                   /\ pc' = [v \in Workers |->
                               IF v = w THEN "emplace"
                               ELSE IF v \in others THEN "parent_assign_raced"
                               ELSE pc[v]]
              ELSE /\ nidx' = [nidx EXCEPT ![w] = 0]
                   /\ neighbors' = [neighbors EXCEPT ![w] = <<>>]
                   /\ pc' = [v \in Workers |->
                               IF v = w THEN "loop"
                               ELSE IF v \in others THEN "parent_assign_raced"
                               ELSE pc[v]]
    /\ UNCHANGED <<phase, inputs, elapsed, open_set, g_costs, found_solutions,
                   solutions_mutex, terminate_search, states_explored,
                   current_state, path, current, result, after_stop,
                   events, previous_cost>>

\* one step of worker w
Worker(w) ==
    \/ Loop(w) \/ Pop(w) \/ TimeCheck(w) \/ Prune(w) \/ Stale(w)
    \/ Lock(w) \/ Walk(w) \/ Insert(w)
    \/ Emplace(w) \/ PushNew(w) \/ ParentNew(w)
    \/ Compare(w) \/ Update(w) \/ PushUpd(w) \/ ParentUpd(w) \/ ParentAssign(w)

(***************************************************************************)
(* Initial state: a constructed PuzzleSolver on which solve was not yet    *)
(* called.  The atomics have no initialiser.                               *)
(***************************************************************************)
Init ==
    /\ phase = "idle"
    /\ initial_board = DefaultBoard
    /\ type = AdjacentSwap
    /\ num_solutions_to_find = 1
    /\ num_threads = 1
    /\ time_limit_seconds = 0
    /\ elapsed = 0
    /\ open_set = EmptyMap
    /\ g_costs = EmptyMap
    /\ came_from = EmptyMap
    /\ found_solutions = {}
    /\ solutions_mutex = 0
    /\ terminate_search \in BOOLEAN
    /\ states_explored \in {0, 1}
    /\ pc = [w \in Workers |-> "none"]
    /\ current_state = [w \in Workers |-> DefaultState]
    /\ neighbors = [w \in Workers |-> <<>>]
    /\ nidx = [w \in Workers |-> 0]
    /\ path = [w \in Workers |-> <<>>]
    /\ current = [w \in Workers |-> DefaultBoard]
    /\ result = <<>>
    /\ after_stop = [w \in Workers |-> NoStop]
    /\ events = {}
    /\ previous_cost = -1

(***************************************************************************)
(* Inputs of solve                                                         *)
(***************************************************************************)
\* the valid boards of an n x m grid: the permutations of 0 .. n*m-1
Boards(n, m) ==
    {Board(n, m, t) : t \in {f \in [1..(n * m) -> 0..(n * m - 1)] :
                                \A i, j \in 1..(n * m) : f[i] = f[j] => i = j}}

\* one call of solve with arguments taken from the given sets
SolveFrom(boards, types, ks, threads, limits) ==
    \E b \in boards, ty \in types, k \in ks, n \in threads, t \in limits :
        /\ Solve(b, ty, k, n, t)
        /\ previous_cost' = -1

\* 2 x 3 and 3 x 2 boards the single-worker specification starts from
SeqBoards2x3 ==
    {Board(2, 3, t) : t \in {<<1, 2, 3, 4, 5, 0>>, <<1, 2, 3, 4, 0, 5>>,
                             <<1, 2, 0, 4, 5, 3>>, <<1, 0, 3, 4, 2, 5>>,
                             <<4, 1, 3, 0, 2, 5>>, <<4, 1, 2, 0, 5, 3>>,
                             <<1, 5, 2, 4, 0, 3>>, <<3, 5, 1, 0, 4, 2>>}}
    \cup {Board(3, 2, t) : t \in {<<1, 2, 3, 4, 0, 5>>, <<1, 2, 0, 4, 3, 5>>,
                                  <<0, 3, 5, 4, 2, 1>>}}

\* one worker, no time limit: every 2 x 2 and 1 x 3 board with every K, and
\* the chosen 2 x 3 boards with K = 1
SolveSmall ==
    SolveFrom(Boards(2, 2) \cup Boards(1, 3), {AdjacentSwap, BlockShift}, 1..MaxK, {1}, {0})

SolveWide ==
    SolveFrom(SeqBoards2x3, {AdjacentSwap, BlockShift}, {1}, {1}, {0})

\* boards the concurrent configurations start from
ConcBoards ==
    {Board(2, 2, t) : t \in {<<1, 2, 3, 0>>, <<1, 2, 0, 3>>, <<0, 2, 1, 3>>, <<2, 1, 3, 0>>,
                             <<0, 3, 2, 1>>}}
    \cup {Board(1, 3, t) : t \in {<<0, 1, 2>>, <<1, 0, 2>>}}

SolveConc ==
    SolveFrom(ConcBoards, {AdjacentSwap, BlockShift}, 1..MaxK, 1..ConcThreads, {0})

\* one worker on every 2 x 2 and 1 x 3 board and on 2 x 3 and 3 x 2 boards, up to
\* ConcThreads workers on the boards of ConcBoards, no time limit
Next == SolveSmall \/ SolveWide \/ SolveConc \/ Join \/ (\E w \in Workers : Worker(w))

Spec == Init /\ [][Next]_vars

\* boards the time-limit specification starts from
TimeBoards == {Board(2, 2, <<1, 2, 0, 3>>), Board(1, 4, <<0, 1, 2, 3>>)}

\* up to ConcThreads workers, with and without a time limit of one second
SolveTime ==
    SolveFrom(TimeBoards, {AdjacentSwap, BlockShift}, 1..MaxK, 1..ConcThreads, {0, 1})

NextTime == SolveTime \/ Tick \/ Join \/ (\E w \in Workers : Worker(w))

SpecTime == Init /\ [][NextTime]_vars

(***************************************************************************)
(* Two workers of which the operating system deschedules worker 1 right    *)
(* after it has popped a successor of the initial board.  Worker 2 runs    *)
(* alone until it stands between the comparison `new_g_cost < it_g->second`*)
(* and the assignment to it_g->second for a successor of the board worker 1*)
(* holds; worker 1 may then be rescheduled and runs until it has expanded  *)
(* a board of depth 2.  Whenever a worker cannot run (the mutex is taken,  *)
(* it has exited) or the stop flag is set, both are scheduled freely.      *)
(***************************************************************************)
Stalled1 == pc[1] = "time" /\ current_state[1].g_cost = 1

Finished1 == pc[1] = "loop" /\ current_state[1].g_cost >= 2

SameBoard ==
    /\ pc[2] = "update"
    /\ \E i \in 1..Len(Successors(type, current_state[1].board)) :
          Successors(type, current_state[1].board)[i].tiles = neighbor_board(2).tiles

Free ==
    \/ Stalled1 /\ SameBoard
    \/ terminate_search
    \/ solutions_mutex # 0
    \/ pc[1] = "done"
    \/ pc[2] = "done"

Turn1 == states_explored <= 1 \/ (pc[2] = "update" /\ ~Stalled1 /\ ~Finished1)

Scheduled(w) == Free \/ (IF w = 1 THEN Turn1 ELSE ~Turn1)

StallWorker(w) == Scheduled(w) /\ Worker(w)

SolveStall ==
    SolveFrom({Board(2, 3, <<2, 5, 3, 4, 1, 0>>)}, {BlockShift}, {1}, {ConcThreads}, {0})

NextStall == SolveStall \/ Join \/ (\E w \in Workers : StallWorker(w))

\* every thread that can run is eventually run, and tg.wait() returns once all have exited
SpecStall ==
    /\ Init
    /\ [][NextStall]_vars
    /\ WF_vars(Join)
    /\ \A w \in Workers : WF_vars(StallWorker(w))

\* a second call of solve, with the arguments of the call that has just returned
SolveAgain ==
    /\ phase = "returned"
    /\ Solve(initial_board, type, num_solutions_to_find, num_threads,
             time_limit_seconds)
    /\ previous_cost' = IF Len(result) > 0 THEN result[1].cost ELSE -1

\* repeated calls on one board, one cost model, K = 1, all workers, no time limit
SolveRepeat ==
    SolveFrom({Board(2, 2, <<0, 2, 1, 3>>)}, {AdjacentSwap}, {1}, {ConcThreads}, {0})

NextRepeat == SolveRepeat \/ SolveAgain \/ Join \/ (\E w \in Workers : Worker(w))

SpecRepeat == Init /\ [][NextRepeat]_vars

\* the grids whose boards are enumerated for the Board member functions
Grids == {<<1, 3>>, <<3, 1>>, <<2, 2>>, <<2, 3>>, <<3, 2>>}

\* a constructed board and nothing else: no solve call is in progress
InitBoard ==
    /\ \E g \in Grids : initial_board \in Boards(g[1], g[2])
    /\ phase = "idle"
    /\ type = AdjacentSwap
    /\ num_solutions_to_find = 1
    /\ num_threads = 1
    /\ time_limit_seconds = 0
    /\ elapsed = 0
    /\ open_set = EmptyMap
    /\ g_costs = EmptyMap
    /\ came_from = EmptyMap
    /\ found_solutions = {}
    /\ solutions_mutex = 0
    /\ terminate_search = FALSE
    /\ states_explored = 0
    /\ pc = [w \in Workers |-> "none"]
    /\ current_state = [w \in Workers |-> DefaultState]
    /\ neighbors = [w \in Workers |-> <<>>]
    /\ nidx = [w \in Workers |-> 0]
    /\ path = [w \in Workers |-> <<>>]
    /\ current = [w \in Workers |-> DefaultBoard]
    /\ result = <<>>
    /\ after_stop = [w \in Workers |-> NoStop]
    /\ events = {}
    /\ previous_cost = -1

\* what a call of one Board member function leaves alone
BoardFrame ==
    UNCHANGED <<phase, initial_board, num_solutions_to_find, num_threads,
                time_limit_seconds, elapsed, open_set, g_costs, came_from,
                found_solutions, solutions_mutex, terminate_search,
                states_explored, pc, nidx, path, current, result, after_stop,
                events, previous_cost>>

\* neighbors = initial_board.get_neighbors_adjacent_swap()
CallAdjacentSwap ==
    /\ neighbors' = [neighbors EXCEPT ![1] = get_neighbors_adjacent_swap(initial_board)]
    /\ type' = AdjacentSwap
    /\ UNCHANGED current_state
    /\ BoardFrame

\* neighbors = initial_board.get_neighbors_block_shift()
CallBlockShift ==
    /\ neighbors' = [neighbors EXCEPT ![1] = get_neighbors_block_shift(initial_board)]
    /\ type' = BlockShift
    /\ UNCHANGED current_state
    /\ BoardFrame

\* State(initial_board, 0, initial_board.get_manhattan_distance()), as solve builds it
CallManhattan ==
    /\ current_state' = [current_state EXCEPT ![1] =
                            State(initial_board, 0, get_manhattan_distance(initial_board))]
    /\ UNCHANGED <<type, neighbors>>
    /\ BoardFrame

NextBoard == CallAdjacentSwap \/ CallBlockShift \/ CallManhattan

SpecBoard == InitBoard /\ [][NextBoard]_vars

(***************************************************************************)
(* Reference definitions used by the properties                            *)
(***************************************************************************)
Range(s) == {s[i] : i \in 1..Len(s)}

goal_tiles(b) == [i \in 1..(b.N * b.M) |-> IF i = b.N * b.M THEN 0 ELSE i]

\* b is one legal move of cost model ty away from a
IsMove(ty, a, b) == \E n \in Range(Successors(ty, a)) : n.tiles = b.tiles

\* breadth-first search: the layers of boards at distance d, d + 1, ...
RECURSIVE BFS(_, _, _, _)
BFS(ty, layer, seen, d) ==
    IF \E b \in layer : is_goal(b) THEN d
    ELSE IF layer = {} THEN -1
    ELSE LET next == UNION {Range(Successors(ty, b)) : b \in layer} \ seen
         IN  BFS(ty, next, seen \cup next, d + 1)

\* breadth-first shortest distance from b to the goal, -1 when unreachable
Distance(ty, b) == BFS(ty, {b}, {b}, 0)

\* the inputs of the running or returned invocation
Solvable == Distance(type, initial_board) >= 0
Returned == phase = "returned"

\* a path is a sequence of legal moves whose number is the cost
ValidSolution(sol) ==
    /\ Len(sol.path) - 1 = sol.cost
    /\ \A i \in 1..(Len(sol.path) - 1) : IsMove(type, sol.path[i], sol.path[i + 1])

(***************************************************************************)
(* Properties                                                              *)
(***************************************************************************)
\* C1: every returned solution is a sequence of legal moves of the active
\* cost model, and its number of moves is its cost, whatever the number of
\* workers and their interleaving.
C1_ReturnedPathsAreValid ==
    Returned => \A i \in 1..Len(result) : ValidSolution(result[i])

C3_ReturnsKSolutions ==
    (Returned /\ num_solutions_to_find >= 2 /\ time_limit_seconds = 0 /\ Solvable
        /\ ~is_goal(initial_board))
    => Len(result) = num_solutions_to_find

\* the order the claim describes: by cost, ties by the first differing board,
\* boards by their first differing tile
TilesBefore(s, t) ==
    \E k \in 1..Len(t) :
        /\ \A i \in 1..(k - 1) : i <= Len(s) /\ s[i] = t[i]
        /\ (k = Len(s) + 1 \/ (k <= Len(s) /\ s[k] < t[k]))

PathBefore(p, q) ==
    \E k \in 1..Len(q) :
        /\ \A i \in 1..(k - 1) : i <= Len(p) /\ p[i].tiles = q[i].tiles
        /\ (k = Len(p) + 1 \/ (k <= Len(p) /\ TilesBefore(p[k].tiles, q[k].tiles)))

SolutionBefore(a, b) ==
    a.cost < b.cost \/ (a.cost = b.cost /\ PathBefore(a.path, b.path))

\* C4: the returned sequence has at most K entries, no duplicate, is in
\* ascending order of cost and then of path, and is the first min(K, size)
\* entries of the collector.
C4_ResultIsSortedPrefix ==
    Returned =>
        /\ Len(result) <= num_solutions_to_find
        /\ Len(result) = (IF Cardinality(found_solutions) < num_solutions_to_find
                          THEN Cardinality(found_solutions) ELSE num_solutions_to_find)
        /\ \A i \in 1..Len(result) : result[i] \in found_solutions
        /\ \A i, j \in 1..Len(result) : i < j => SolutionBefore(result[i], result[j])
        /\ \A s \in found_solutions \ Range(result) :
              \A i \in 1..Len(result) : SolutionBefore(result[i], s)

C4_Witness ==
    /\ Returned
    /\ Cardinality(found_solutions) > num_solutions_to_find
    /\ Len(result) = num_solutions_to_find

\* C5: with one worker, K = 1 and no time limit the BlockShift solution of a
\* solvable board with a row or column longer than 2 costs the breadth-first
\* distance of the block-shift graph.
C5_BlockShiftTopOneOptimal ==
    (Returned /\ type = BlockShift /\ num_solutions_to_find = 1 /\ num_threads = 1
        /\ time_limit_seconds = 0 /\ Solvable
        /\ (initial_board.N > 2 \/ initial_board.M > 2))
    => (Len(result) = 1 /\ result[1].cost = Distance(type, initial_board))

\* C6: under fair scheduling every invocation of solve returns.
C6_SolveReturns == (phase = "running") ~> (phase = "returned")

\* C7: a worker that has popped a state when the whole seconds elapsed have
\* reached a time limit T > 0 sets the stop flag and exits, leaving frontier,
\* cost table, parent table and collector as they are; otherwise it goes on
\* to the pruning test and leaves the flag alone.  With T = 0 the flag is set
\* only by the goal branch.  solve returns what the collector holds.
C7_TimeLimitStopsWorker ==
    [][/\ \A w \in Workers :
            (pc[w] = "time" /\ pc'[w] # "time") =>
                IF time_limit_seconds > 0
                   /\ elapsed >= time_limit_seconds * TicksPerSecond
                THEN /\ terminate_search'
                     /\ pc'[w] = "done"
                     /\ UNCHANGED <<open_set, g_costs, came_from, found_solutions>>
                ELSE /\ pc'[w] = "prune"
                     /\ UNCHANGED terminate_search
       /\ (time_limit_seconds = 0 /\ phase = "running"
              /\ ~terminate_search /\ terminate_search')
          => \E w \in Workers : pc[w] = "insert"
       /\ phase' = "returned" => Range(result') \subseteq found_solutions'
      ]_vars

C7_Witness ==
    /\ Returned /\ time_limit_seconds > 0
    /\ terminate_search /\ result = <<>> /\ states_explored > 0

\* the largest number of successors of a board of the shape of the initial board
MaxSuccessors ==
    LET Min2(x) == IF x < 2 THEN x ELSE 2
    IN  IF type = AdjacentSwap
        THEN Min2(initial_board.N - 1) + Min2(initial_board.M - 1)
        ELSE (initial_board.N - 1) + (initial_board.M - 1)

\* C8 as stated: once the stop flag is set a worker makes at most one further
\* frontier pop or push.
C8_OneOperationAfterStop ==
    \A w \in Workers : after_stop[w].pop + after_stop[w].push <= 1

\* C8 amended: once the stop flag is set a worker makes at most one further
\* pop and at most as many pushes as one board has successors.
C8_OneExpansionAfterStop ==
    phase # "idle" =>
        \A w \in Workers :
            /\ after_stop[w].pop <= 1
            /\ after_stop[w].push <= MaxSuccessors

C8_Witness ==
    \E w \in Workers : after_stop[w].push >= 2

\* C9: while solve runs, the stop flag once set stays set, and it is set only
\* by the time-limit check or by the goal branch when the collector reaches K.
C9_StopFlagMonotone ==
    [][phase = "running" =>
        /\ terminate_search => terminate_search'
        /\ (~terminate_search /\ terminate_search') =>
              \E w \in Workers :
                  \/ pc[w] = "time" /\ time_limit_seconds > 0
                  \/ /\ pc[w] = "insert"
                     /\ Cardinality(found_solutions') >= num_solutions_to_find
      ]_vars

C9_Witness ==
    /\ phase = "running" /\ terminate_search
    /\ Cardinality(found_solutions) < num_solutions_to_find
    /\ \E w \in Workers : pc[w] = "insert"

\* C10: while solve runs, the g stored for a board never increases.
C10_CostNeverIncreases ==
    [][phase = "running" =>
        \A k \in DOMAIN g_costs :
            k \in DOMAIN g_costs' /\ g_costs'[k] <= g_costs[k]]_vars

\* C11: whenever a board has a stored g and a recorded parent p, the board is
\* a successor of p and p has been reached with cost g - 1: the parent never
\* belongs to an older, costlier path than the stored g.
C11_ParentMatchesCost ==
    phase = "running" =>
        \A b \in DOMAIN came_from :
            LET p == came_from[b]
            IN  /\ b \in DOMAIN g_costs
                /\ IsMove(type, p, [tiles |-> b])
                /\ p.tiles \in DOMAIN g_costs
                /\ g_costs[p.tiles] + 1 <= g_costs[b]

\* C12: when solve is called again with the same board, cost model, K and worker
\* count and no time limit, the cost of the first solution it returns equals the
\* cost of the first solution the previous call returned.
C12_TopOneCostRepeats ==
    (Returned /\ previous_cost # -1 /\ Len(result) > 0) =>
        result[1].cost = previous_cost

\* C13: the Manhattan heuristic of the goal is 0; the heuristic of a board is at
\* most one more than that of each of its adjacent-swap successors; and it is at
\* most the breadth-first adjacent-swap distance to the goal when the goal is
\* reachable.
C13_ManhattanAdmissibleConsistent ==
    LET B == initial_board
        h == current_state[1].h_cost
    IN  (phase = "idle" /\ current_state[1].board = B) =>
            /\ is_goal(B) => h = 0
            /\ (type = AdjacentSwap /\ neighbors[1] # <<>>) =>
                   \A i \in 1..Len(neighbors[1]) :
                       h <= get_manhattan_distance(neighbors[1][i]) + 1
            /\ Distance(AdjacentSwap, B) >= 0 => h <= Distance(AdjacentSwap, B)

\* a board two or more moves from the goal has been measured and its
\* adjacent-swap successors generated
C13_Witness ==
    /\ phase = "idle"
    /\ current_state[1].board = initial_board
    /\ type = AdjacentSwap /\ Len(neighbors[1]) >= 3
    /\ current_state[1].h_cost >= 4
    /\ Distance(AdjacentSwap, initial_board) > current_state[1].h_cost

\* what solve returns is the first num_solutions_to_find collected solutions,
\* whichever way the search ended
ResultIsCollected ==
    /\ Len(result) = IF Cardinality(found_solutions) < num_solutions_to_find
                     THEN Cardinality(found_solutions)
                     ELSE num_solutions_to_find
    /\ \A i \in 1..Len(result) : result[i] \in found_solutions

\* C14 as stated: a call that ends on the time budget (stop flag set with fewer
\* than K solutions collected) has logged the time-limit warning; a call that
\* ends with K solutions collected or with the stop flag clear has not; and
\* the result is the collected solutions in both cases.
C14_TimeEventOnlyOnTimeout ==
    Returned =>
        /\ (terminate_search /\ Cardinality(found_solutions) < num_solutions_to_find)
               => "time_limit" \in events
        /\ (~terminate_search \/ Cardinality(found_solutions) >= num_solutions_to_find)
               => "time_limit" \notin events
        /\ ResultIsCollected

\* C14 amended: a call that ends on the time budget has logged the time-limit
\* warning; the warning is logged only when a time budget is set, has been
\* exceeded and the stop flag is set, never in a call that ends with the stop
\* flag clear, and with a single worker never in a call that collected K
\* solutions; the result is the collected solutions in every case.  With
\* several workers one call can both collect K solutions and log the warning.
C14_TimeEventWhenBudgetExceeded ==
    Returned =>
        /\ (terminate_search /\ Cardinality(found_solutions) < num_solutions_to_find)
               => "time_limit" \in events
        /\ "time_limit" \in events =>
               /\ time_limit_seconds > 0
               /\ ElapsedSeconds >= time_limit_seconds
               /\ terminate_search
               /\ num_threads = 1 =>
                      Cardinality(found_solutions) < num_solutions_to_find
        /\ ResultIsCollected

\* a call with two workers has returned on the time budget, with fewer than K
\* solutions and the warning logged
C14_Witness ==
    /\ Returned
    /\ num_threads = 2
    /\ "time_limit" \in events
    /\ terminate_search
    /\ Cardinality(found_solutions) < num_solutions_to_find

\* the cost of the K-th cheapest collected solution: fewer than K solutions are
\* cheaper and at least K are as cheap
IsKthCost(c) ==
    /\ Cardinality({s \in found_solutions : s.cost < c}) < num_solutions_to_find
    /\ Cardinality({s \in found_solutions : s.cost <= c}) >= num_solutions_to_find

\* the popped state of worker w is one the pruning rule discards
Prunable(w) ==
    /\ Cardinality(found_solutions) >= num_solutions_to_find
    /\ \E s \in found_solutions :
           IsKthCost(s.cost) /\ current_state[w].f_cost >= s.cost

\* C15: the pruning step of a worker sends a prunable state back to the loop
\* head with the cost table, the parents, the frontier and the collector
\* unchanged, goal board or not; every other state goes on to the staleness
\* check, in particular every state when fewer than K solutions are collected.
C15_PruneDiscards ==
    [][\A w \in Workers :
          (pc[w] = "prune" /\ pc'[w] # "prune") =>
              IF Prunable(w)
              THEN /\ pc'[w] = "loop"
                   /\ UNCHANGED <<g_costs, came_from, open_set, found_solutions>>
              ELSE pc'[w] = "stale"]_vars

\* a worker is back at the loop head holding a goal state that costs more
\* than every collected solution: it was discarded, not recorded
C15_Witness ==
    \E w \in Workers :
        /\ phase = "running" /\ pc[w] = "loop"
        /\ current_state[w].board.N > 0
        /\ is_goal(current_state[w].board)
        /\ Prunable(w)
        /\ \A s \in found_solutions : s.cost < current_state[w].g_cost

\* the popped state of worker w is stale: the cost table holds a smaller g_cost
\* for its board
IsStale(w) ==
    /\ current_state[w].board.tiles \in DOMAIN g_costs
    /\ current_state[w].g_cost > g_costs[current_state[w].board.tiles]

\* C16: the staleness check of a worker sends a state whose g_cost is greater
\* than the table's back to the loop head, with the table, the parents, the
\* frontier, the collector and the worker's successor list unchanged; a state
\* whose g_cost equals the table's goes on to the goal branch or to the
\* expansion.  So a state enters the goal branch or the expansion only with a
\* g_cost that is not greater than the table's at that check.
C16_StaleDiscarded ==
    [][\A w \in Workers :
          (pc[w] = "stale" /\ pc'[w] # "stale") =>
              /\ IsStale(w) =>
                     /\ pc'[w] = "loop"
                     /\ UNCHANGED <<g_costs, came_from, open_set, found_solutions,
                                    neighbors>>
              /\ (/\ current_state[w].board.tiles \in DOMAIN g_costs
                  /\ current_state[w].g_cost = g_costs[current_state[w].board.tiles]) =>
                     /\ pc'[w] = IF is_goal(current_state[w].board) THEN "lock" ELSE "emplace"
                     /\ is_goal(current_state[w].board)
                            \/ neighbors'[w] = Successors(type, current_state[w].board)
              /\ pc'[w] \in {"lock", "emplace"} => ~IsStale(w)]_vars

\* a worker is back at the loop head with a stale state that it has not
\* expanded, while no solution is collected (so pruning did not discard it)
C16_Witness ==
    \E w \in Workers :
        /\ phase = "running" /\ pc[w] = "loop"
        /\ found_solutions = {}
        /\ current_state[w].board.N > 0
        /\ IsStale(w)
        /\ neighbors[w] # Successors(type, current_state[w].board)

\* the relaxation of successor S = neighbor_board(w) by worker w, step by step
RelaxationEffect(w) ==
    LET S == neighbor_board(w)
        B == current_state[w].board
        g == current_state[w].g_cost
        pushed == State(S, g + 1, get_manhattan_distance(S))
    IN  /\ (pc[w] = "emplace" /\ pc'[w] # "emplace") =>
               IF S.tiles \notin DOMAIN g_costs
               THEN /\ pc'[w] = "push_new"
                    /\ g_costs' = MapPut(g_costs, S.tiles, g + 1)
                    /\ UNCHANGED <<came_from, open_set>>
               ELSE /\ pc'[w] = "compare"
                    /\ UNCHANGED <<g_costs, came_from, open_set>>
        /\ (pc[w] = "push_new" /\ pc'[w] # "push_new") =>
               /\ pc'[w] = "parent_new"
               /\ open_set' = QueuePush(open_set, pushed)
               /\ UNCHANGED <<g_costs, came_from>>
        /\ (pc[w] = "parent_new" /\ pc'[w] # "parent_new") =>
               /\ came_from' = MapPut(came_from, S.tiles, B)
               /\ UNCHANGED <<g_costs, open_set>>
        /\ (pc[w] = "compare" /\ pc'[w] # "compare") =>
               /\ UNCHANGED <<g_costs, came_from, open_set>>
               /\ (pc'[w] = "update") = (g_costs[S.tiles] > g + 1)
        /\ (pc[w] = "update" /\ pc'[w] # "update") =>
               /\ pc'[w] = "push_upd"
               /\ g_costs[S.tiles] > g + 1
               /\ g_costs' = MapPut(g_costs, S.tiles, g + 1)
               /\ UNCHANGED <<came_from, open_set>>
        /\ (pc[w] = "push_upd" /\ pc'[w] # "push_upd") =>
               /\ open_set' = QueuePush(open_set, pushed)
               /\ UNCHANGED <<g_costs, came_from>>
        /\ (/\ pc[w] \in {"parent_upd", "parent_assign", "parent_assign_raced"}
            /\ pc'[w] \in {"emplace", "loop"}) =>
               /\ came_from' = MapPut(came_from, S.tiles, B)
               /\ UNCHANGED <<g_costs, open_set>>

\* C17: relaxing successor S of the expanded state (B, g): when S has no table
\* entry the table gets S -> g + 1, exactly one state (S, g + 1) is pushed and
\* the parent of S becomes B; when the stored g is greater than g + 1 the entry
\* becomes g + 1, exactly one state is pushed and the parent of S becomes B;
\* otherwise the table, the parents and the frontier are left unchanged.
C17_RelaxationEffect ==
    [][\A w \in Workers : RelaxationEffect(w)]_vars

\* the same statement for the calls that run a single worker
C17_RelaxationEffectOneWorker ==
    [][num_threads = 1 => RelaxationEffect(1)]_vars

\* C18: a pop from a non-empty frontier returns a queued state of minimum
\* f_cost and, among those, of minimum g_cost, and removes one copy of it; a pop
\* from an empty frontier makes the worker leave its loop at once, whatever the
\* other workers are doing.
C18_PopReturnsMinimum ==
    [][\A w \in Workers :
          (pc[w] = "pop" /\ pc'[w] # "pop") =>
              IF DOMAIN open_set = {}
              THEN pc'[w] = "done" /\ UNCHANGED open_set
              ELSE LET s == current_state'[w]
                   IN  /\ pc'[w] = "time"
                       /\ s \in DOMAIN open_set
                       /\ \A x \in DOMAIN open_set :
                              \/ s.f_cost < x.f_cost
                              \/ s.f_cost = x.f_cost /\ s.g_cost <= x.g_cost
                       /\ open_set' = QueueRemove(open_set, s)]_vars

\* a worker has left its loop on an empty frontier (the stop flag is clear)
\* while another worker is in the middle of an expansion, about to push
C18_Witness ==
    \E w, v \in Workers :
        /\ phase = "running"
        /\ ~terminate_search
        /\ pc[w] = "done"
        /\ pc[v] = "push_new"

\* position of the blank of a board, found in its tiles (0-based row, column)
BlankIndex(b) == (CHOOSE p \in 1..Len(b.tiles) : b.tiles[p] = 0) - 1
BlankRow(b) == BlankIndex(b) \div b.M
BlankCol(b) == BlankIndex(b) % b.M

\* the four directions as (row step, column step): up, down, left, right
StepOf(i) ==
    CASE i = 1 -> <<-1, 0>> [] i = 2 -> <<1, 0>> [] i = 3 -> <<0, -1>> [] i = 4 -> <<0, 1>>

\* cells between the blank of b and the edge in direction i
Room(b, i) ==
    CASE i = 1 -> BlankRow(b)
      [] i = 2 -> b.N - 1 - BlankRow(b)
      [] i = 3 -> BlankCol(b)
      [] i = 4 -> b.M - 1 - BlankCol(b)

\* the board obtained from b by shifting the k tiles nearest the blank in
\* direction i one cell each toward the blank: the cell j - 1 steps from the
\* blank receives the tile j steps from it, the blank ends k steps away
Shifted(b, i, k) ==
    LET er == BlankRow(b)
        ec == BlankCol(b)
        Cell(j) == (er + j * StepOf(i)[1]) * b.M + (ec + j * StepOf(i)[2]) + 1
    IN  [N |-> b.N, M |-> b.M,
         empty_row |-> er + k * StepOf(i)[1],
         empty_col |-> ec + k * StepOf(i)[2],
         tiles |-> [p \in 1..(b.N * b.M) |->
                      IF p = Cell(k) THEN 0
                      ELSE IF \E j \in 0..(k - 1) : p = Cell(j)
                      THEN b.tiles[Cell((CHOOSE j \in 0..(k - 1) : p = Cell(j)) + 1)]
                      ELSE b.tiles[p]]]

\* C19: get_neighbors_block_shift returns, for each direction with d cells
\* between the blank and the edge, exactly the d boards shifted by 1..d tiles,
\* all distinct, (R-1)+(C-1) boards in all; the boards shifted by one tile are
\* exactly the boards get_neighbors_adjacent_swap returns.
C19_BlockShiftSuccessors ==
    LET B == initial_board
        out == neighbors[1]
    IN  (phase = "idle" /\ type = BlockShift /\ out # <<>>) =>
            /\ Len(out) = (B.N - 1) + (B.M - 1)
            /\ Cardinality(Range(out)) = Len(out)
            /\ Range(out) = UNION {{Shifted(B, i, k) : k \in 1..Room(B, i)} : i \in 1..4}
            /\ \A i \in 1..4 :
                   Cardinality({s \in Range(out) :
                                   \E k \in 1..Room(B, i) : s = Shifted(B, i, k)}) = Room(B, i)
            /\ {Shifted(B, i, 1) : i \in {j \in 1..4 : Room(B, j) >= 1}}
                   = Range(get_neighbors_adjacent_swap(B))

\* the block-shift successors of a 2 x 3 or 1 x 3 board whose blank is in the
\* first column have been generated, one of them shifting two tiles
C19_Witness ==
    /\ phase = "idle"
    /\ type = BlockShift
    /\ initial_board.M = 3
    /\ initial_board.empty_col = 0
    /\ \E i \in 1..Len(neighbors[1]) :
           /\ neighbors[1][i].empty_col = 2
           /\ neighbors[1][i].tiles[1] # 0
           /\ neighbors[1][i].tiles[1] = initial_board.tiles[2]

\* the Board invariant: the tiles are a permutation of 0 .. N*M-1 and the
\* cached blank coordinates are those of the cell holding 0
ValidBoard(b) ==
    /\ b.N >= 1 /\ b.M >= 1
    /\ Len(b.tiles) = b.N * b.M
    /\ \A v \in 0..(b.N * b.M - 1) :
           Cardinality({p \in 1..Len(b.tiles) : b.tiles[p] = v}) = 1
    /\ b.empty_row \in 0..(b.N - 1)
    /\ b.empty_col \in 0..(b.M - 1)
    /\ b.tiles[b.empty_row * b.M + b.empty_col + 1] = 0

\* C20: a call of get_neighbors_adjacent_swap or get_neighbors_block_shift on a
\* board satisfying the Board invariant returns boards of the same grid that
\* satisfy it too, and leaves the board it was called on unchanged.
C20_GeneratorsPreserveInvariant ==
    [][(phase = "idle" /\ ValidBoard(initial_board) /\ neighbors' # neighbors) =>
          /\ initial_board' = initial_board
          /\ \A i \in 1..Len(neighbors'[1]) :
                 /\ ValidBoard(neighbors'[1][i])
                 /\ neighbors'[1][i].N = initial_board.N
                 /\ neighbors'[1][i].M = initial_board.M]_vars

\* both generators have been called on valid 3 x 2 boards with the blank in
\* the middle row: three adjacent-swap successors, or three block-shift ones
C20_Witness ==
    /\ phase = "idle"
    /\ ValidBoard(initial_board)
    /\ initial_board.N = 3 /\ initial_board.empty_row = 1
    /\ Len(neighbors[1]) = 3
    /\ \A i \in 1..3 : ValidBoard(neighbors[1][i]) /\ neighbors[1][i] # initial_board

\* C21: the step that starts a call of solve, whatever the previous call left
\* behind, leaves the frontier holding exactly one state, the initial board with
\* g_cost 0, the cost table holding exactly initial -> 0, no parent, no
\* collected solution, the stop flag clear and the explored counter at 0, with
\* no worker having run yet.
C21_SolveStartsFresh ==
    [][(phase # "running" /\ phase' = "running") =>
          LET seed == State(initial_board', 0, get_manhattan_distance(initial_board'))
          IN  /\ DOMAIN open_set' = {seed}
              /\ open_set'[seed] = 1
              /\ seed.g_cost = 0
              /\ DOMAIN g_costs' = {initial_board'.tiles}
              /\ g_costs'[initial_board'.tiles] = 0
              /\ DOMAIN came_from' = {}
              /\ found_solutions' = {}
              /\ terminate_search' = FALSE
              /\ states_explored' = 0
              /\ \A w \in Workers : pc'[w] \in {"loop", "none"}]_vars

\* a second call has just started after a call that left states in the
\* frontier, parents, a solution and the stop flag set, and no worker has run
C21_Witness ==
    /\ phase = "running"
    /\ previous_cost # -1
    /\ states_explored = 0
    /\ found_solutions = {}
    /\ ~terminate_search
    /\ \A w \in Workers : pc[w] = "loop"

\* C22: each iteration of the walk of reconstruct_path appends the board it is
\* at; the walk leaves its loop at a board other than the initial one only when
\* that board has no parent entry, and then the error is logged; the sequence
\* returned (and stored as the path of the solution) is the initial board
\* followed by the boards walked, in reverse order, so that it starts with the
\* initial board and ends with the goal board the walk started from.
C22_ReconstructedPathShape ==
    [][\A w \in Workers :
          /\ (pc[w] = "walk" /\ path'[w] # path[w]) =>
                 path'[w] = Append(path[w], current[w])
          /\ (pc[w] = "walk" /\ pc'[w] = "insert" /\ ~BoardEq(current[w], initial_board)) =>
                 /\ current[w].tiles \notin DOMAIN came_from
                 /\ "broken_chain" \in events'
                 /\ Len(path[w]) < MaxPath => path'[w][Len(path'[w])] = current[w]
          /\ (pc[w] = "insert" /\ pc'[w] = "loop") =>
                 \E sol \in found_solutions' :
                     /\ sol.cost = current_state[w].g_cost
                     /\ sol.path = <<initial_board>> \o
                                       [i \in 1..Len(path[w]) |-> path[w][Len(path[w]) + 1 - i]]
                     /\ sol.path[1] = initial_board
                     /\ sol.path[Len(sol.path)] = current_state[w].board]_vars

\* a walk has stopped at a board without a parent entry, the error is logged
\* and the walked boards are about to be returned
C22_Witness ==
    \E w \in Workers :
        /\ pc[w] = "insert"
        /\ "broken_chain" \in events
        /\ Len(path[w]) >= 2
        /\ path[w][Len(path[w])] = current[w]
        /\ ~BoardEq(current[w], initial_board)
        /\ current[w].tiles \notin DOMAIN came_from

\* C23: when solve returns after the stop flag was set with K solutions
\* collected, no state whose f_cost is lower than the cost of the K-th solution
\* is left in the frontier: the workers have popped and processed them all.
C23_CheaperStatesProcessed ==
    (/\ Returned
     /\ terminate_search
     /\ Cardinality(found_solutions) >= num_solutions_to_find) =>
        \A s \in DOMAIN open_set :
            \A x \in found_solutions :
                IsKthCost(x.cost) => s.f_cost >= x.cost

\* C24: while solve runs, every board in the frontier other than the initial
\* board has a parent entry, and the walk of reconstruct_path never stands on a
\* board other than the initial one that has no parent entry.
C24_FrontierStatesHaveParent ==
    phase = "running" =>
        /\ \A s \in DOMAIN open_set :
               ~BoardEq(s.board, initial_board) => s.board.tiles \in DOMAIN came_from
        /\ \A w \in Workers :
               (pc[w] = "walk" /\ ~BoardEq(current[w], initial_board)) =>
                   current[w].tiles \in DOMAIN came_from

\* following the parent links from cur for at most n steps comes back to start
RECURSIVE OnCycle(_, _, _)
OnCycle(start, cur, n) ==
    IF n = 0 \/ cur \notin DOMAIN came_from THEN FALSE
    ELSE \/ came_from[cur].tiles = start
         \/ OnCycle(start, came_from[cur].tiles, n - 1)

\* C25: while solve runs, following the parent links from any board never
\* comes back to that board, the initial board has no parent entry and its
\* stored g_cost stays 0.
C25_ParentLinksAcyclic ==
    phase = "running" =>
        /\ \A b \in DOMAIN came_from :
               ~OnCycle(b, b, Cardinality(DOMAIN came_from))
        /\ initial_board.tiles \notin DOMAIN came_from
        /\ g_costs[initial_board.tiles] = 0

\* breadth-first search from a set of boards: the distance of every board
\* reached, as a function from tiles to the number of moves
RECURSIVE DistancesFrom(_, _, _, _)
DistancesFrom(ty, layer, seen, d) ==
    IF layer = {} THEN EmptyMap
    ELSE LET next == UNION {Range(Successors(ty, b)) : b \in layer} \ seen
         IN  [t \in {b.tiles : b \in layer} |-> d]
                 @@ DistancesFrom(ty, next, seen \cup next, d + 1)

\* the boards solve is started from under Spec
StartBoards == Boards(2, 2) \cup Boards(1, 3) \cup SeqBoards2x3 \cup ConcBoards

\* shortest number of moves from each start board to each board reachable from it
ShortestFromStart ==
    [ty \in {AdjacentSwap, BlockShift} |->
        [a \in StartBoards |-> DistancesFrom(ty, {a}, {a}, 0)]]

\* C26: every g_cost stored in the cost table, every g_cost carried by a
\* frontier state and the cost of every collected solution is at least the
\* breadth-first shortest distance from the initial board to that board.
C26_CostsNeverUnderReport ==
    phase \in {"running", "returned"} =>
        LET D == ShortestFromStart[type][initial_board]
        IN  /\ \A t \in DOMAIN g_costs :
                   t \in DOMAIN D /\ g_costs[t] >= D[t]
            /\ \A s \in DOMAIN open_set :
                   s.board.tiles \in DOMAIN D /\ s.g_cost >= D[s.board.tiles]
            /\ \A sol \in found_solutions :
                   /\ goal_tiles(initial_board) \in DOMAIN D
                   /\ sol.cost >= D[goal_tiles(initial_board)]

\* two workers have stored costs for boards more than one move away, one of
\* them above the shortest distance, and a solution has been collected
C26_Witness ==
    /\ phase = "running"
    /\ num_threads = 2
    /\ found_solutions # {}
    /\ \E t \in DOMAIN g_costs :
           /\ ShortestFromStart[type][initial_board][t] >= 2
           /\ g_costs[t] > ShortestFromStart[type][initial_board][t]

\* C27: when solve returns, the stop flag is set or the frontier is empty.
C27_FrontierEmptyUnlessStopped ==
    Returned => (terminate_search \/ DOMAIN open_set = {})

\* solve has returned with the stop flag clear and the frontier exhausted,
\* after two workers explored several states and collected a solution
C27_Witness ==
    /\ Returned
    /\ ~terminate_search
    /\ DOMAIN open_set = {}
    /\ num_threads = 2
    /\ states_explored >= 4
    /\ found_solutions # {}

\* the call runs one worker under AdjacentSwap with K = 1 and no time limit
OneWorkerAdjacentTopOne ==
    /\ phase \in {"running", "returned"}
    /\ num_threads = 1
    /\ type = AdjacentSwap
    /\ num_solutions_to_find = 1
    /\ time_limit_seconds = 0

\* C28: with one worker, AdjacentSwap, K = 1 and no time limit, a goal state that
\* has passed the staleness check carries the breadth-first shortest distance
\* as its g_cost, and for every solvable board solve returns exactly one
\* solution, of that cost.
C28_FirstGoalIsShortest ==
    OneWorkerAdjacentTopOne =>
        LET D == ShortestFromStart[AdjacentSwap][initial_board]
            goal == goal_tiles(initial_board)
        IN  /\ pc[1] \in {"lock", "walk", "insert"} =>
                   /\ current_state[1].board.tiles = goal
                   /\ current_state[1].g_cost = D[goal]
            /\ (Returned /\ goal \in DOMAIN D) =>
                   /\ Len(result) = 1
                   /\ result[1].cost = D[goal]

\* the single worker holds a goal state popped after a search of several
\* expansions on a board at least five moves from the goal
C28_Witness ==
    /\ OneWorkerAdjacentTopOne
    /\ pc[1] = "lock"
    /\ current_state[1].g_cost >= 5
    /\ states_explored >= 6

\* the call runs one worker under AdjacentSwap with no time limit
OneWorkerAdjacent ==
    /\ phase \in {"running", "returned"}
    /\ num_threads = 1
    /\ type = AdjacentSwap
    /\ time_limit_seconds = 0

StartedAtGoal ==
    /\ phase \in {"running", "returned"}
    /\ time_limit_seconds = 0
    /\ initial_board.N > 0
    /\ is_goal(initial_board)

\* the solution of cost 0 whose path is the initial board alone
TrivialSolution == [cost |-> 0, path |-> <<initial_board>>]

\* C30: when the initial board is already the goal, for every cost model, K and
\* number of workers, no successor is ever generated, the cost table keeps the
\* single entry initial -> 0, no parent link is written, the collector holds
\* nothing but the solution of cost 0 whose path is the initial board, and solve
\* returns exactly that one solution.
C30_GoalAtStart ==
    StartedAtGoal =>
        /\ DOMAIN g_costs = {initial_board.tiles}
        /\ g_costs[initial_board.tiles] = 0
        /\ DOMAIN came_from = {}
        /\ \A w \in Workers :
               /\ neighbors[w] = <<>>
               /\ pc[w] \in {"none", "loop", "pop", "time", "prune", "stale",
                              "lock", "walk", "insert", "done"}
        /\ found_solutions \subseteq {TrivialSolution}
        /\ Returned => result = <<TrivialSolution>>

\* two workers were started under BlockShift for two solutions of a board that
\* is the goal, and solve returned the one solution
C30_Witness ==
    /\ StartedAtGoal
    /\ Returned
    /\ type = BlockShift
    /\ num_threads = 2
    /\ num_solutions_to_find = 2
    /\ Len(result) = 1
    /\ states_explored = 1

====
